---- MODULE Spec2Model ----
(***************************************************************************)
(* A model of the DiNKR tournament server (src/app.py): the                *)
(* TournamentGenerator object shared by the whole process, the per-session *)
(* tournament state kept by the Flask session, and the request handlers    *)
(* that read and write both.                                               *)
(*                                                                         *)
(* Player names are strings; they are modelled as sequences of character   *)
(* codes so that the partnership key is really the concatenation the code  *)
(* builds.  Ratings are kept in tenths (3.8 is 38).                        *)
(***************************************************************************)
EXTENDS Integers, Sequences, FiniteSets, Bags, TLC

VARIABLES
    partnership_history, \* tournament_gen.partnership_history (one per process)
    tournament,          \* session['tournament'], per session
    config,              \* session['config'], per session
    scores,              \* session['scores'], per session
    current_round,       \* session['current_round'], per session
    response,            \* the last request and the response it got
    ops                  \* number of requests served so far

vars == <<partnership_history, tournament, config, scores, current_round,
          response, ops>>

(***************************************************************************)
(* Bounds of the model.                                                    *)
(***************************************************************************)
MaxOps == 2
MaxPlayers == 5
MaxRounds == 2
MaxCourts == 1
MaxSwitches == 2
MaxSkip == 1
MaxGenPlayers == 9
MaxGenCourts == 2
MaxCalls == 1

(***************************************************************************)
(* Characters and players.                                                 *)
(***************************************************************************)
Bar == 124      \* the '|' of the partnership key
ChA == 65
ChB == 66
ChD == 68
ChE == 69
ChF == 70
ChG == 71
ChH == 72
ChC == 67
ChS == 83
ChI == 73

Player(n, g, r) == [name |-> n, gender |-> g, rating |-> r]

\* Ten of default_players (first letters of their names), in an order the
\* random.sample / random.shuffle of generate_tournament can produce.
default_players ==
    << Player(<<ChA>>, "M", 38), Player(<<ChF>>, "F", 38),
       Player(<<ChB>>, "M", 39), Player(<<ChD>>, "M", 40),
       Player(<<ChE>>, "F", 39), Player(<<ChG>>, "M", 37),
       Player(<<ChH>>, "F", 36), Player(<<ChC>>, "M", 35),
       Player(<<ChS>>, "F", 41), Player(<<ChI>>, "F", 39) >>

\* s[:n] for n >= 0
Take(s, n) == SubSeq(s, 1, IF n < Len(s) THEN n ELSE Len(s))

Sessions == {"s1", "s2"}

\* a players list of the request in which two entries share a name
DupPlayers ==
    << Player(<<ChA>>, "M", 38), Player(<<ChF>>, "F", 38),
       Player(<<ChB>>, "M", 39), Player(<<ChA>>, "F", 40) >>

\* a players list of the request with ratings far apart, in which pairing by
\* rating sets two women against two men
MixedPlayers ==
    << Player(<<ChH>>, "F", 20), Player(<<ChG>>, "M", 30),
       Player(<<ChA>>, "M", 31), Player(<<ChE>>, "F", 55) >>

PlayersData == {default_players, DupPlayers, MixedPlayers}
TotalPlayers == 3..MaxPlayers
Courts == 0..MaxCourts
Rounds == 0..MaxRounds

\* config.get('courts', 2)
DefaultCourts == 2

\* direct calls of generate_enhanced_tournament: longer lists, more courts
DupEight == [i \in 1..8 |-> IF i = 8 THEN Player(<<ChA>>, "F", 40)
                            ELSE default_players[i]]
GeneratorLists ==
    {Take(default_players, n) : n \in 4..MaxGenPlayers} \cup {DupEight}
GeneratorCourts == 0..MaxGenCourts

SkipNames == {<<ChA>>, <<ChE>>}
SkipSets == {S \in SUBSET SkipNames : Cardinality(S) <= MaxSkip}

Names(players) == {players[i].name : i \in 1..Len(players)}

NameSeq(players) == [i \in 1..Len(players) |-> players[i].name]

UniqueNames(players) ==
    \A i, j \in 1..Len(players) : players[i].name = players[j].name => i = j

(***************************************************************************)
(* Python list helpers.                                                    *)
(***************************************************************************)
\* str < str, as Python compares strings (by code point, a prefix first)
RECURSIVE StrLess(_, _)
StrLess(a, b) ==
    IF b = <<>> THEN FALSE
    ELSE IF a = <<>> THEN TRUE
    ELSE IF Head(a) # Head(b) THEN Head(a) < Head(b)
    ELSE StrLess(Tail(a), Tail(b))

\* every ordering of a finite set, as a list (list(set) of hashed strings)
RECURSIVE ListsOf(_)
ListsOf(S) ==
    IF S = {} THEN {<<>>}
    ELSE UNION {{<<x>> \o l : l \in ListsOf(S \ {x})} : x \in S}

(***************************************************************************)
(* TournamentGenerator: the partnership history.                           *)
(* partnership_history is a defaultdict(int): a key that was only read     *)
(* holds 0, which nothing distinguishes from a key never touched, so the   *)
(* model keeps the history as the bag of the keys recorded.                 *)
(***************************************************************************)
\* get_partnership_key that does not sort the two names
KeyUnsorted(player1, player2) == player1.name \o <<Bar>> \o player2.name

get_partnership_key(player1, player2) ==
    LET n1 == player1.name
        n2 == player2.name
        first == IF StrLess(n2, n1) THEN n2 ELSE n1
        second == IF StrLess(n2, n1) THEN n1 ELSE n2
    IN  first \o <<Bar>> \o second

Count(history, key) == CopiesIn(key, history)

\* have_partnered_before that takes one earlier partnership for none
HavePartneredTwice(history, player1, player2) ==
    Count(history, get_partnership_key(player1, player2)) > 1

have_partnered_before(history, player1, player2) ==
    Count(history, get_partnership_key(player1, player2)) > 0

\* record_partnership that records the partnership twice
RecordTwice(history, player1, player2) ==
    history (+) SetToBag({get_partnership_key(player1, player2)})
            (+) SetToBag({get_partnership_key(player1, player2)})

record_partnership(history, player1, player2) ==
    history (+) SetToBag({get_partnership_key(player1, player2)})

\* defaultdict(int)
EmptyHistory == EmptyBag

(***************************************************************************)
(* TournamentGenerator: one round.                                         *)
(***************************************************************************)
\* sorted(four_players, key=rating): Python's sort is stable
InsertByRating(sorted, p) ==
    LET n == Cardinality({i \in 1..Len(sorted) : sorted[i].rating <= p.rating})
    IN  SubSeq(sorted, 1, n) \o <<p>> \o SubSeq(sorted, n + 1, Len(sorted))

\* sorted() that leaves the list in the order given
KeepOrder(s) == s

RECURSIVE SortedByRating(_)
SortedByRating(s) ==
    IF s = <<>> THEN <<>>
    ELSE InsertByRating(SortedByRating(SubSeq(s, 1, Len(s) - 1)), s[Len(s)])

\* create_balanced_teams that pairs the first with the third of the sorted four
TeamsAlternate(four_players) ==
    LET sorted_players == SortedByRating(four_players)
    IN  <<<<sorted_players[1], sorted_players[3]>>,
          <<sorted_players[2], sorted_players[4]>>>>

\* create_balanced_teams that pairs the two lowest and the two highest
TeamsInRatingOrder(four_players) ==
    LET sorted_players == SortedByRating(four_players)
    IN  <<<<sorted_players[1], sorted_players[2]>>,
          <<sorted_players[3], sorted_players[4]>>>>

create_balanced_teams(four_players) ==
    LET sorted_players == SortedByRating(four_players)
        team_a == <<sorted_players[1], sorted_players[4]>>
        team_b == <<sorted_players[2], sorted_players[3]>>
    IN  <<team_a, team_b>>

\* select_players_for_round that takes the last players of the list
SelectLast(available_players, needed) ==
    SubSeq(available_players,
           IF needed >= Len(available_players) THEN 1
           ELSE Len(available_players) - needed + 1,
           Len(available_players))

select_players_for_round(available_players, needed) ==
    IF needed >= 0 THEN Take(available_players, needed)
    ELSE SubSeq(available_players, 1, Len(available_players) + needed)

\* random.shuffle(players_list): any permutation
Shuffles(players) ==
    {[i \in 1..Len(players) |-> players[perm[i]]] :
        perm \in Permutations(1..Len(players))}

\* CourtLoop that forgets to mark the players of a court as used
RECURSIVE CourtLoopReuse(_, _, _, _, _)
CourtLoopReuse(players_list, courts, court, matches, used_players) ==
    IF court >= courts THEN matches
    ELSE IF Cardinality(used_players) >= Len(players_list) THEN matches
    ELSE LET available ==
                 SelectSeq(players_list, LAMBDA p : p.name \notin used_players)
         IN  IF Len(available) < 4 THEN matches
             ELSE LET court_players == SubSeq(available, 1, 4)
                  IN  CourtLoopReuse(players_list, courts, court + 1,
                                     Append(matches,
                                            create_balanced_teams(court_players)),
                                     used_players)

\* the loop over the courts, from court number court on
RECURSIVE CourtLoop(_, _, _, _, _)
CourtLoop(players_list, courts, court, matches, used_players) ==
    IF court >= courts THEN matches
    ELSE IF Cardinality(used_players) >= Len(players_list) THEN matches
    ELSE LET available ==
                 SelectSeq(players_list, LAMBDA p : p.name \notin used_players)
         IN  IF Len(available) < 4 THEN matches
             ELSE LET court_players == SubSeq(available, 1, 4)
                  IN  CourtLoop(players_list, courts, court + 1,
                                Append(matches,
                                       create_balanced_teams(court_players)),
                                used_players \cup Names(court_players))

\* generate_round_matches with the shuffled list it drew; none is Python's None
generate_round_matches(players, courts, shuffled) ==
    IF Len(players) # courts * 4 THEN [none |-> TRUE, matches |-> <<>>]
    ELSE LET matches == CourtLoop(shuffled, courts, 0, <<>>, {})
         IN  IF Len(matches) = courts
             THEN [none |-> FALSE, matches |-> matches]
             ELSE [none |-> TRUE, matches |-> <<>>]

\* every value generate_round_matches can return for a list of players
ShuffledOutcomes(players, courts) ==
    IF Len(players) # courts * 4
    THEN {generate_round_matches(players, courts, players)}
    ELSE {generate_round_matches(players, courts, sh) : sh \in Shuffles(players)}

\* The lists of players a round can be generated for, with the court counts:
\* the requests' players lists, less a skip set, cut to the players needed.
PlayingLists ==
    {<<select_players_for_round(
           SelectSeq(Take(pd, tp), LAMBDA p : p.name \notin sk), c * 4), c>> :
        pd \in PlayersData, tp \in TotalPlayers, sk \in SkipSets,
        c \in Courts \cup {DefaultCourts}}
    \cup
    {<<select_players_for_round(
           SelectSeq(pl, LAMBDA p : p.name \notin sk), c * 4), c>> :
        pl \in GeneratorLists, sk \in SkipSets, c \in GeneratorCourts}

\* ShuffledOutcomes, tabulated once for the lists above
RoundTable ==
    {[players |-> k[1], courts |-> k[2],
      outcomes |-> ShuffledOutcomes(k[1], k[2])] : k \in PlayingLists}

RoundOutcomes(players, courts) ==
    (CHOOSE e \in RoundTable : e.players = players /\ e.courts = courts).outcomes

NotEnough == "Not enough players available"
CouldNot == "Could not generate valid matches for this round"

\* ErrorResult that reports the two counts in each other's place
ErrorResultSwapped(msg, need, have) ==
    [ok |-> FALSE, error |-> msg, need |-> have, have |-> need,
     matches |-> <<>>, sit_outs |-> <<>>, playing_players |-> <<>>]

ErrorResult(msg, need, have) ==
    [ok |-> FALSE, error |-> msg, need |-> need, have |-> have,
     matches |-> <<>>, sit_outs |-> <<>>, playing_players |-> <<>>]

\* the partnerships of a round's matches, recorded in order
RECURSIVE RecordMatches(_, _)
RecordMatches(history, matches) ==
    IF matches = <<>> THEN history
    ELSE LET team_a == Head(matches)[1]
             team_b == Head(matches)[2]
         IN  RecordMatches(
                 record_partnership(
                     record_partnership(history, team_a[1], team_a[2]),
                     team_b[1], team_b[2]),
                 Tail(matches))

\* generate_enhanced_tournament: every (result, history afterwards) it can
\* produce; skip_players is used for membership only and is kept as a set
generate_enhanced_tournament(history, courts, players_list, skip_players) ==
    LET available_players ==
            SelectSeq(players_list, LAMBDA p : p.name \notin skip_players)
        playing_players_needed == courts * 4
    IN  IF Len(available_players) < playing_players_needed
        THEN {[result |-> ErrorResult(NotEnough, playing_players_needed,
                                      Len(available_players)),
               history |-> history]}
        ELSE LET playing_players ==
                     select_players_for_round(available_players,
                                              playing_players_needed)
                 sitting_players ==
                     NameSeq(SelectSeq(players_list,
                         LAMBDA p : p.name \notin Names(playing_players)))
             IN  {IF r.none \/ r.matches = <<>>
                  THEN [result |-> ErrorResult(CouldNot, 0, 0),
                        history |-> history]
                  ELSE [result |-> [ok |-> TRUE, error |-> "", need |-> 0,
                                    have |-> 0, matches |-> r.matches,
                                    sit_outs |-> sitting_players,
                                    playing_players |-> NameSeq(playing_players)],
                        history |-> RecordMatches(history, r.matches)] :
                  r \in RoundOutcomes(playing_players, courts)}

(***************************************************************************)
(* TournamentGenerator: the whole schedule.                                *)
(***************************************************************************)
\* round_data numbered from 0
RoundDataFromZero(round, matches, sit_outs) ==
    [round |-> round - 1, matches |-> matches, sit_outs |-> sit_outs]

RoundData(round, matches, sit_outs) ==
    [round |-> round, matches |-> matches, sit_outs |-> sit_outs]

\* the loop over the rounds, from round_num on
RECURSIVE RoundLoop(_, _, _, _, _, _)
RoundLoop(history, courts, players_list, rounds, round_num, schedule) ==
    IF round_num >= rounds
    THEN {[ok |-> TRUE, error |-> ErrorResult("", 0, 0), schedule |-> schedule,
           players |-> players_list, history |-> history]}
    ELSE UNION {
           IF ~o.result.ok
           THEN {[ok |-> FALSE, error |-> o.result, schedule |-> <<>>,
                  players |-> <<>>, history |-> o.history]}
           ELSE RoundLoop(o.history, courts, players_list, rounds, round_num + 1,
                          Append(schedule,
                                 RoundData(round_num + 1, o.result.matches,
                                           o.result.sit_outs))) :
           o \in generate_enhanced_tournament(history, courts, players_list, {})}

\* generate_simple_tournament: every (result, history afterwards)
generate_simple_tournament(courts, players_list, rounds) ==
    RoundLoop(EmptyHistory, courts, players_list, rounds, 0, <<>>)

(***************************************************************************)
(* TournamentGenerator.validate_player_switch.                             *)
(***************************************************************************)
ValidSwitch == "Valid switch"
AlreadyPartnered == "has already partnered with"
NotInMatches == "Player not found in current matches"

\* the check made once the player is found beside partner
CheckPartner(history, replacement_player, partner) ==
    IF have_partnered_before(history, replacement_player, partner)
    THEN [valid |-> FALSE, message |-> AlreadyPartnered,
          who |-> replacement_player.name, partner |-> partner.name]
    ELSE [valid |-> TRUE, message |-> ValidSwitch, who |-> <<>>, partner |-> <<>>]

RECURSIVE validate_player_switch(_, _, _, _)
validate_player_switch(history, current_matches, player_to_replace, replacement_player) ==
    IF current_matches = <<>>
    THEN [valid |-> FALSE, message |-> NotInMatches, who |-> <<>>, partner |-> <<>>]
    ELSE LET team_a == Head(current_matches)[1]
             team_b == Head(current_matches)[2]
         IN  IF team_a[1].name = player_to_replace
             THEN CheckPartner(history, replacement_player, team_a[2])
             ELSE IF team_a[2].name = player_to_replace
             THEN CheckPartner(history, replacement_player, team_a[1])
             ELSE IF team_b[1].name = player_to_replace
             THEN CheckPartner(history, replacement_player, team_b[2])
             ELSE IF team_b[2].name = player_to_replace
             THEN CheckPartner(history, replacement_player, team_b[1])
             ELSE validate_player_switch(history, Tail(current_matches),
                                         player_to_replace, replacement_player)

(***************************************************************************)
(* The switches of apply_player_switches and of advance_round.             *)
(***************************************************************************)
Switch(old, new) == [oldPlayer |-> old, newPlayer |-> new]

\* player_map[name]: a later player of the same name overwrites an earlier one
PlayerMap(players, name) ==
    players[CHOOSE i \in 1..Len(players) :
                /\ players[i].name = name
                /\ \A j \in 1..Len(players) : players[j].name = name => j <= i]

\* the slots of a round: <<match, team, position>>, in the order the loops visit them
Slots(matches) == (1..Len(matches)) \X (1..2) \X (1..2)

SlotRank(slot) == (slot[1] - 1) * 4 + (slot[2] - 1) * 2 + slot[3]

SlotsNamed(matches, name) ==
    {sl \in Slots(matches) : matches[sl[1]][sl[2]][sl[3]].name = name}

FirstSlot(slots) == CHOOSE sl \in slots : \A o \in slots : SlotRank(sl) <= SlotRank(o)

\* ApplyOneSwitch that counts a switch whose old player is in no match
ApplyOneSwitchCounted(matches, players, switch) ==
    IF switch.newPlayer \notin Names(players)
    THEN [applied |-> 0, matches |-> matches]
    ELSE LET found == SlotsNamed(matches, switch.oldPlayer)
         IN  IF found = {} THEN [applied |-> 1, matches |-> matches]
             ELSE LET sl == FirstSlot(found)
                  IN  [applied |-> 1,
                       matches |-> [matches EXCEPT ![sl[1]][sl[2]][sl[3]] =
                                       PlayerMap(players, switch.newPlayer)]]

\* apply_player_switches, one switch: the first slot holding the old name, in
\* the whole round, gets the new player
ApplyOneSwitch(matches, players, switch) ==
    IF switch.newPlayer \notin Names(players)
    THEN [applied |-> 0, matches |-> matches]
    ELSE LET found == SlotsNamed(matches, switch.oldPlayer)
         IN  IF found = {} THEN [applied |-> 0, matches |-> matches]
             ELSE LET sl == FirstSlot(found)
                  IN  [applied |-> 1,
                       matches |-> [matches EXCEPT ![sl[1]][sl[2]][sl[3]] =
                                       PlayerMap(players, switch.newPlayer)]]

\* the loop over the switches: the matches afterwards and switches_applied
RECURSIVE ApplySwitchLoop(_, _, _, _)
ApplySwitchLoop(matches, players, switches, switches_applied) ==
    IF switches = <<>>
    THEN [matches |-> matches, switches_applied |-> switches_applied]
    ELSE LET one == ApplyOneSwitch(matches, players, Head(switches))
         IN  ApplySwitchLoop(one.matches, players, Tail(switches),
                             switches_applied + one.applied)

PlayingNames(matches) ==
    {matches[sl[1]][sl[2]][sl[3]].name : sl \in Slots(matches)}

\* advance_round, one team: the first position holding the old name
ReplaceInTeam(team, old, new_player) ==
    IF team[1].name = old THEN <<new_player, team[2]>>
    ELSE IF team[2].name = old THEN <<team[1], new_player>>
    ELSE team

\* advance_round, one switch: every team of every match is searched
AdvanceOneSwitch(matches, players, switch) ==
    IF switch.newPlayer \notin Names(players) THEN matches
    ELSE [m \in 1..Len(matches) |->
            <<ReplaceInTeam(matches[m][1], switch.oldPlayer,
                            PlayerMap(players, switch.newPlayer)),
              ReplaceInTeam(matches[m][2], switch.oldPlayer,
                            PlayerMap(players, switch.newPlayer))>>]

RECURSIVE AdvanceSwitchLoop(_, _, _)
AdvanceSwitchLoop(matches, players, switches) ==
    IF switches = <<>> THEN matches
    ELSE AdvanceSwitchLoop(AdvanceOneSwitch(matches, players, Head(switches)),
                           players, Tail(switches))

(***************************************************************************)
(* Requests: the values the model draws them from.                         *)
(***************************************************************************)
\* switches: onto a player sitting out (or, in a pool of four, onto a name
\* that is not in the pool), onto a player already playing, and one that
\* takes the partner of the first away
Switches ==
    {Switch(<<ChA>>, <<ChE>>), Switch(<<ChA>>, <<ChF>>),
     Switch(<<ChD>>, <<ChB>>)}
SwitchLists == UNION {[1..n -> Switches] : n \in 0..MaxSwitches}

ValidateOld == {<<ChA>>, <<ChE>>}
ValidateNew == {<<ChA>>, <<ChF>>, <<ChE>>}

\* roundIndex: below -len, the last round counted from the end, the first
\* round, and len of the longest schedule
RoundIndexes == {0 - MaxRounds - 1, 0 - 1, 0, MaxRounds}
Teams == {"teamA", "teamB"}
ScoreValues == {15, 21}

(***************************************************************************)
(* The session state and the responses.                                    *)
(***************************************************************************)
NoTournament == [stored |-> FALSE, schedule |-> <<>>, players |-> <<>>]
NoConfig ==
    [stored |-> FALSE, courts |-> 0, rounds |-> 0,
     avoidMMvsFF |-> FALSE, useRatingBalance |-> FALSE]
NoScores == [k \in {} |-> 0]

\* avoidMMvsFF and useRatingBalance of the request: both on (the defaults)
\* or both off
BalanceOptions ==
    {[avoidMMvsFF |-> b, useRatingBalance |-> b] : b \in BOOLEAN}

ConfigCourts(c) == IF c.stored THEN c.courts ELSE DefaultCourts

Response(op, sid, status, body) ==
    [op |-> op, sid |-> sid, status |-> status, body |-> body]

ErrorBody(msg) == [error |-> msg, need |-> 0, have |-> 0]

Init ==
    /\ partnership_history = EmptyHistory
    /\ tournament = [s \in Sessions |-> NoTournament]
    /\ config = [s \in Sessions |-> NoConfig]
    /\ scores = [s \in Sessions |-> NoScores]
    /\ current_round = [s \in Sessions |-> 0]
    /\ response = Response("none", "none", 0, ErrorBody(""))
    /\ ops = 0

Step == ops < MaxOps /\ ops' = ops + 1

(***************************************************************************)
(* POST /api/generate_tournament                                           *)
(***************************************************************************)
generate_tournament(s, players_data, total_players, courts, rounds) ==
    /\ Step
    /\ LET players == Take(players_data, total_players)
       IN  IF Len(players) < total_players
           THEN /\ response' = Response("generate_tournament", s, 400,
                                        ErrorBody("Need players"))
                /\ UNCHANGED <<partnership_history, tournament, config, scores,
                               current_round>>
           ELSE \E o \in generate_simple_tournament(courts, players, rounds) :
                  /\ partnership_history' = o.history
                  /\ IF ~o.ok
                     THEN /\ response' = Response("generate_tournament", s, 400,
                                 [error |-> o.error.error, need |-> o.error.need,
                                  have |-> o.error.have])
                          /\ UNCHANGED <<tournament, config, scores, current_round>>
                     ELSE /\ tournament' = [tournament EXCEPT ![s] =
                                 [stored |-> TRUE, schedule |-> o.schedule,
                                  players |-> o.players]]
                          /\ \E options \in BalanceOptions :
                                config' = [config EXCEPT ![s] =
                                    [stored |-> TRUE, courts |-> courts,
                                     rounds |-> rounds,
                                     avoidMMvsFF |-> options.avoidMMvsFF,
                                     useRatingBalance |->
                                         options.useRatingBalance]]
                          /\ scores' = [scores EXCEPT ![s] = NoScores]
                          /\ current_round' = [current_round EXCEPT ![s] = 0]
                          /\ response' = Response("generate_tournament", s, 200,
                                                  ErrorBody(""))

(***************************************************************************)
(* POST /api/validate_player_switch                                        *)
(***************************************************************************)
ValidateRoute(s, player_to_replace, replacement_player_name) ==
    /\ Step
    /\ UNCHANGED <<partnership_history, tournament, config, scores, current_round>>
    /\ LET t == tournament[s]
       IN  IF ~t.stored
           THEN \* tournament['players'] of {} raises KeyError
                response' = Response("validate_player_switch", s, 500,
                                     ErrorBody("players"))
           ELSE IF replacement_player_name \notin Names(t.players)
           THEN response' = Response("validate_player_switch", s, 200,
                    [valid |-> FALSE, message |-> "Replacement player not found",
                     who |-> <<>>, partner |-> <<>>])
           ELSE IF current_round[s] >= Len(t.schedule)
           THEN \* schedule[current_round] raises IndexError
                response' = Response("validate_player_switch", s, 500,
                                     ErrorBody("list index out of range"))
           ELSE LET replacement_player ==
                        t.players[CHOOSE i \in 1..Len(t.players) :
                            /\ t.players[i].name = replacement_player_name
                            /\ \A j \in 1..(i - 1) :
                                 t.players[j].name # replacement_player_name]
                IN  response' = Response("validate_player_switch", s, 200,
                        validate_player_switch(partnership_history,
                            t.schedule[current_round[s] + 1].matches,
                            player_to_replace, replacement_player))

(***************************************************************************)
(* POST /api/apply_player_switches                                         *)
(***************************************************************************)
\* apply_player_switches that records the teams left by the switches
ApplyAndRecord(s, switches, round_index) ==
    /\ Step
    /\ UNCHANGED <<config, scores, current_round>>
    /\ LET t == tournament[s]
           n == Len(t.schedule)
       IN  IF ~t.stored
           THEN /\ response' = Response("apply_player_switches", s, 400,
                                        ErrorBody("No tournament data found"))
                /\ UNCHANGED tournament
           ELSE IF round_index >= n
           THEN /\ response' = Response("apply_player_switches", s, 400,
                                        ErrorBody("Invalid round index"))
                /\ UNCHANGED tournament
           ELSE IF round_index < 0 - n
           THEN \* schedule[round_index] raises IndexError
                /\ response' = Response("apply_player_switches", s, 500,
                       ErrorBody("Failed to apply switches: list index out of range"))
                /\ UNCHANGED tournament
           ELSE LET \* a negative index counts from the end of the list
                    r == IF round_index < 0 THEN n + round_index + 1
                         ELSE round_index + 1
                    done == ApplySwitchLoop(t.schedule[r].matches, t.players,
                                            switches, 0)
                IN  IF done.switches_applied = 0
                    THEN /\ response' = Response("apply_player_switches", s, 400,
                                ErrorBody("No switches were applied"))
                         /\ UNCHANGED tournament
                    ELSE \E sitting_out \in
                              ListsOf(Names(t.players) \ PlayingNames(done.matches)) :
                           /\ tournament' = [tournament EXCEPT ![s].schedule[r] =
                                  [@ EXCEPT !.matches = done.matches,
                                            !.sit_outs = sitting_out]]
                           /\ response' = Response("apply_player_switches", s, 200,
                                  [applied_switches |-> done.switches_applied,
                                   total_switches |-> Len(switches)])
    /\ partnership_history' =
           IF tournament'[s] = tournament[s] THEN partnership_history
           ELSE RecordMatches(partnership_history,
                    tournament'[s].schedule[CHOOSE r \in 1..Len(tournament[s].schedule) :
                        tournament'[s].schedule[r] # tournament[s].schedule[r]].matches)

apply_player_switches(s, switches, round_index) ==
    /\ Step
    /\ UNCHANGED <<partnership_history, config, scores, current_round>>
    /\ LET t == tournament[s]
           n == Len(t.schedule)
       IN  IF ~t.stored
           THEN /\ response' = Response("apply_player_switches", s, 400,
                                        ErrorBody("No tournament data found"))
                /\ UNCHANGED tournament
           ELSE IF round_index >= n
           THEN /\ response' = Response("apply_player_switches", s, 400,
                                        ErrorBody("Invalid round index"))
                /\ UNCHANGED tournament
           ELSE IF round_index < 0 - n
           THEN \* schedule[round_index] raises IndexError
                /\ response' = Response("apply_player_switches", s, 500,
                       ErrorBody("Failed to apply switches: list index out of range"))
                /\ UNCHANGED tournament
           ELSE LET \* a negative index counts from the end of the list
                    r == IF round_index < 0 THEN n + round_index + 1
                         ELSE round_index + 1
                    done == ApplySwitchLoop(t.schedule[r].matches, t.players,
                                            switches, 0)
                IN  IF done.switches_applied = 0
                    THEN /\ response' = Response("apply_player_switches", s, 400,
                                ErrorBody("No switches were applied"))
                         /\ UNCHANGED tournament
                    ELSE \E sitting_out \in
                              ListsOf(Names(t.players) \ PlayingNames(done.matches)) :
                           /\ tournament' = [tournament EXCEPT ![s].schedule[r] =
                                  [@ EXCEPT !.matches = done.matches,
                                            !.sit_outs = sitting_out]]
                           /\ response' = Response("apply_player_switches", s, 200,
                                  [applied_switches |-> done.switches_applied,
                                   total_switches |-> Len(switches)])

(***************************************************************************)
(* POST /api/update_score                                                  *)
(***************************************************************************)
update_score(s, round_idx, match_idx, team, score) ==
    /\ Step
    /\ scores' = [scores EXCEPT ![s] =
           [k \in DOMAIN @ \cup {<<round_idx, match_idx, team>>} |->
               IF k = <<round_idx, match_idx, team>> THEN score ELSE @[k]]]
    /\ response' = Response("update_score", s, 200, ErrorBody(""))
    /\ UNCHANGED <<partnership_history, tournament, config, current_round>>

(***************************************************************************)
(* POST /api/advance_round                                                 *)
(***************************************************************************)
\* advance_round that moves the current round index two rounds on
AdvanceByTwo(s, skip_players, player_switches) ==
    /\ Step
    /\ UNCHANGED <<config, scores>>
    /\ LET current == current_round[s]
           t == tournament[s]
       IN  IF current < Len(t.schedule) - 1
           THEN LET next_round == current + 1
                IN  \E o \in generate_enhanced_tournament(partnership_history,
                                 ConfigCourts(config[s]), t.players, skip_players) :
                      /\ partnership_history' = o.history
                      /\ IF ~o.result.ok
                         THEN /\ response' = Response("advance_round", s, 400,
                                     [error |-> o.result.error,
                                      need |-> o.result.need,
                                      have |-> o.result.have])
                              /\ UNCHANGED <<tournament, current_round>>
                         ELSE /\ tournament' = [tournament EXCEPT
                                     ![s].schedule[next_round + 1] =
                                        RoundData(next_round + 1,
                                            AdvanceSwitchLoop(o.result.matches,
                                                t.players, player_switches),
                                            o.result.sit_outs)]
                              /\ current_round' = [current_round EXCEPT
                                                       ![s] = next_round + 1]
                              /\ response' = Response("advance_round", s, 200,
                                     [round |-> next_round])
           ELSE /\ response' = Response("advance_round", s, 200,
                                        [completed |-> TRUE])
                /\ UNCHANGED <<partnership_history, tournament, current_round>>

advance_round(s, skip_players, player_switches) ==
    /\ Step
    /\ UNCHANGED <<config, scores>>
    /\ LET current == current_round[s]
           t == tournament[s]
       IN  IF current < Len(t.schedule) - 1
           THEN LET next_round == current + 1
                IN  \E o \in generate_enhanced_tournament(partnership_history,
                                 ConfigCourts(config[s]), t.players, skip_players) :
                      /\ partnership_history' = o.history
                      /\ IF ~o.result.ok
                         THEN /\ response' = Response("advance_round", s, 400,
                                     [error |-> o.result.error,
                                      need |-> o.result.need,
                                      have |-> o.result.have])
                              /\ UNCHANGED <<tournament, current_round>>
                         ELSE /\ tournament' = [tournament EXCEPT
                                     ![s].schedule[next_round + 1] =
                                        RoundData(next_round + 1,
                                            AdvanceSwitchLoop(o.result.matches,
                                                t.players, player_switches),
                                            o.result.sit_outs)]
                              /\ current_round' = [current_round EXCEPT
                                                       ![s] = next_round]
                              /\ response' = Response("advance_round", s, 200,
                                     [round |-> next_round])
           ELSE /\ response' = Response("advance_round", s, 200,
                                        [completed |-> TRUE])
                /\ UNCHANGED <<partnership_history, tournament, current_round>>

(***************************************************************************)
(* The server: any request of any session, one at a time.                  *)
(***************************************************************************)
Server(S) ==
    \/ \E s \in S, pd \in PlayersData, tp \in TotalPlayers,
          c \in Courts, r \in Rounds : generate_tournament(s, pd, tp, c, r)
    \/ \E s \in S, old \in ValidateOld, new \in ValidateNew :
          ValidateRoute(s, old, new)
    \/ \E s \in S, sw \in SwitchLists, ri \in RoundIndexes :
          apply_player_switches(s, sw, ri)
    \/ \E s \in S, ri \in 0..(MaxRounds - 1), mi \in 0..(MaxCourts - 1),
          t \in Teams, v \in ScoreValues : update_score(s, ri, mi, t, v)
    \/ \E s \in S, sk \in SkipSets, sw \in SwitchLists :
          advance_round(s, sk, sw)

\* one client
Next == Server({"s1"})

Spec == Init /\ [][Next]_vars

\* two clients, their requests interleaved
NextSessions == Server(Sessions)

SpecSessions == Init /\ [][NextSessions]_vars

(***************************************************************************)
(* TournamentGenerator.generate_enhanced_tournament called on its own, as a *)
(* test of the generator calls it: the response keeps the arguments and    *)
(* the value returned.                                                     *)
(***************************************************************************)
CallGenerate(courts, players_list, skip_players) ==
    /\ ops < MaxCalls
    /\ ops' = ops + 1
    /\ \E o \in generate_enhanced_tournament(partnership_history, courts,
                                             players_list, skip_players) :
         /\ partnership_history' = o.history
         /\ response' = Response("generate_enhanced_tournament", "none", 0,
                [courts |-> courts, players_list |-> players_list,
                 skip_players |-> skip_players, result |-> o.result])
    /\ UNCHANGED <<tournament, config, scores, current_round>>

NextGenerator ==
    \E c \in GeneratorCourts, pl \in GeneratorLists, sk \in SkipSets :
        CallGenerate(c, pl, sk)

SpecGenerator == Init /\ [][NextGenerator]_vars

(***************************************************************************)
(* The partnership tracker called on its own: record_partnership on any    *)
(* two players, in either order.                                           *)
(***************************************************************************)
\* the players recorded: the default players, one whose name begins with the
\* name of another and two whose names contain the '|' character
TrackerPlayers ==
    {default_players[i] : i \in 1..Len(default_players)}
        \cup {Player(<<ChA, ChB>>, "M", 38),
              Player(<<ChA, Bar, ChB>>, "M", 38),
              Player(<<ChB, Bar, ChC>>, "F", 38)}

CallRecord(player1, player2) ==
    /\ ops < MaxCalls
    /\ ops' = ops + 1
    /\ partnership_history' =
           record_partnership(partnership_history, player1, player2)
    /\ response' = Response("record_partnership", "none", 0,
                            [player1 |-> player1, player2 |-> player2])
    /\ UNCHANGED <<tournament, config, scores, current_round>>

NextTracker == \E p \in TrackerPlayers, q \in TrackerPlayers : CallRecord(p, q)

SpecTracker == Init /\ [][NextTracker]_vars

(***************************************************************************)
(* create_balanced_teams called on its own with any four players of a      *)
(* pool, in any order: the response keeps the argument and the teams.      *)
(***************************************************************************)
\* the players the groups are taken from; some share a rating
TeamPool == Take(default_players, 6)

\* four entries of the pool in any order
FourPlayers ==
    {<<TeamPool[i[1]], TeamPool[i[2]], TeamPool[i[3]], TeamPool[i[4]]>> :
        i \in {j \in (1..Len(TeamPool)) \X (1..Len(TeamPool))
                       \X (1..Len(TeamPool)) \X (1..Len(TeamPool)) :
                  Cardinality({j[1], j[2], j[3], j[4]}) = 4}}

CallTeams(four_players) ==
    /\ ops < MaxCalls
    /\ ops' = ops + 1
    /\ response' = Response("create_balanced_teams", "none", 0,
                            [four_players |-> four_players,
                             teams |-> create_balanced_teams(four_players)])
    /\ UNCHANGED <<partnership_history, tournament, config, scores, current_round>>

NextTeams == \E four_players \in FourPlayers : CallTeams(four_players)

SpecTeams == Init /\ [][NextTeams]_vars

(***************************************************************************)
(* GET /api/calculate_results                                              *)
(***************************************************************************)
\* int(x) if x else 0, of a score sent as a number
ScoreInt(v) == IF v = 0 THEN 0 ELSE v

\* the keys of player_stats in the order they were inserted: the names of
\* the pool, a name that comes again keeping its first place
RECURSIVE StatNames(_)
StatNames(players) ==
    IF players = <<>> THEN <<>>
    ELSE LET rest == StatNames(SubSeq(players, 1, Len(players) - 1))
             last == players[Len(players)].name
         IN  IF \E i \in 1..Len(rest) : rest[i] = last THEN rest
             ELSE Append(rest, last)

\* player_stats as first built; the later of two players of one name
\* overwrites the earlier
InitialStats(players) ==
    [n \in Names(players) |->
        [name |-> n, totalScore |-> 0, matchesPlayed |-> 0, wins |-> 0,
         rating |-> PlayerMap(players, n).rating,
         gender |-> PlayerMap(players, n).gender]]

\* wins counted also when the two scores are equal
UpdatePlayerTieWins(player_stats, name, score, other) ==
    [player_stats EXCEPT ![name] =
        [@ EXCEPT !.totalScore = @ + score,
                  !.matchesPlayed = @ + 1,
                  !.wins = IF score >= other THEN @ + 1 ELSE @]]

\* one player of a team that scored score against other
UpdatePlayer(player_stats, name, score, other) ==
    [player_stats EXCEPT ![name] =
        [@ EXCEPT !.totalScore = @ + score,
                  !.matchesPlayed = @ + 1,
                  !.wins = IF score > other THEN @ + 1 ELSE @]]

UpdateTeam(player_stats, team, score, other) ==
    UpdatePlayer(UpdatePlayer(player_stats, team[1].name, score, other),
                 team[2].name, score, other)

\* one match: counted when both its scores are there
MatchStats(player_stats, match, session_scores, round_idx, match_idx) ==
    LET a == <<round_idx, match_idx, "teamA">>
        b == <<round_idx, match_idx, "teamB">>
    IN  IF a \in DOMAIN session_scores /\ b \in DOMAIN session_scores
        THEN LET score_a == ScoreInt(session_scores[a])
                 score_b == ScoreInt(session_scores[b])
             IN  UpdateTeam(UpdateTeam(player_stats, match[1], score_a, score_b),
                            match[2], score_b, score_a)
        ELSE player_stats

\* the matches of a round, from match_idx on
RECURSIVE RoundStats(_, _, _, _, _)
RoundStats(player_stats, matches, session_scores, round_idx, match_idx) ==
    IF match_idx >= Len(matches) THEN player_stats
    ELSE RoundStats(MatchStats(player_stats, matches[match_idx + 1],
                               session_scores, round_idx, match_idx),
                    matches, session_scores, round_idx, match_idx + 1)

\* the rounds of the schedule, from round_idx on
RECURSIVE ScheduleStats(_, _, _, _)
ScheduleStats(player_stats, schedule, session_scores, round_idx) ==
    IF round_idx >= Len(schedule) THEN player_stats
    ELSE ScheduleStats(RoundStats(player_stats, schedule[round_idx + 1].matches,
                                  session_scores, round_idx, 0),
                       schedule, session_scores, round_idx + 1)

\* the sort key (-totalScore, -wins, -matchesPlayed): a comes before b
RankedBefore(a, b) ==
    \/ a.totalScore > b.totalScore
    \/ a.totalScore = b.totalScore /\ a.wins > b.wins
    \/ a.totalScore = b.totalScore /\ a.wins = b.wins
         /\ a.matchesPlayed > b.matchesPlayed

\* SortedByRank that leaves the records in the order of the pool
Unsorted(stats) == stats

\* sorted(...): Python's sort is stable
InsertByRank(sorted, rec) ==
    LET n == Cardinality({i \in 1..Len(sorted) : ~RankedBefore(rec, sorted[i])})
    IN  SubSeq(sorted, 1, n) \o <<rec>> \o SubSeq(sorted, n + 1, Len(sorted))

RECURSIVE SortedByRank(_)
SortedByRank(stats) ==
    IF stats = <<>> THEN <<>>
    ELSE InsertByRank(SortedByRank(SubSeq(stats, 1, Len(stats) - 1)),
                      stats[Len(stats)])

calculate_results(s) ==
    /\ Step
    /\ UNCHANGED <<partnership_history, tournament, config, scores, current_round>>
    /\ LET t == tournament[s]
       IN  IF ~t.stored
           THEN response' = Response("calculate_results", s, 400,
                                     ErrorBody("No tournament data"))
           ELSE LET player_stats ==
                        ScheduleStats(InitialStats(t.players), t.schedule,
                                      scores[s], 0)
                    order == StatNames(t.players)
                IN  response' = Response("calculate_results", s, 200,
                        [results |-> SortedByRank(
                            [i \in 1..Len(order) |-> player_stats[order[i]]])])

(***************************************************************************)
(* The results of a tournament under way: a session that holds a generated *)
(* tournament and any scores update_score can have stored, then more       *)
(* scores and calculate_results.                                           *)
(***************************************************************************)
ResultsPools == {Take(default_players, 4), Take(default_players, 5), DupPlayers}

ScoreKeys == (0..(MaxRounds - 1)) \X {0} \X Teams

ScoreMaps == UNION {[K -> ScoreValues] : K \in SUBSET ScoreKeys}

InitResults ==
    /\ \E pd \in ResultsPools, options \in BalanceOptions :
         \E o \in generate_simple_tournament(1, pd, MaxRounds) :
            /\ o.ok
            /\ partnership_history = o.history
            /\ tournament = [s \in Sessions |->
                   IF s = "s1"
                   THEN [stored |-> TRUE, schedule |-> o.schedule,
                         players |-> o.players]
                   ELSE NoTournament]
            /\ config = [s \in Sessions |->
                   IF s = "s1"
                   THEN [stored |-> TRUE, courts |-> 1, rounds |-> MaxRounds,
                         avoidMMvsFF |-> options.avoidMMvsFF,
                         useRatingBalance |-> options.useRatingBalance]
                   ELSE NoConfig]
    /\ scores \in {[s \in Sessions |-> IF s = "s1" THEN m ELSE NoScores] :
                     m \in ScoreMaps}
    /\ current_round = [s \in Sessions |-> 0]
    /\ response = Response("none", "none", 0, ErrorBody(""))
    /\ ops = 0

NextResults ==
    \/ calculate_results("s1")
    \/ \E ri \in 0..(MaxRounds - 1), mi \in 0..(MaxCourts - 1),
          t \in Teams, v \in ScoreValues : update_score("s1", ri, mi, t, v)

SpecResults == InitResults /\ [][NextResults]_vars

(***************************************************************************)
(* Properties.                                                             *)
(***************************************************************************)
\* the step is a request of kind op by session s, answered
Answered(op, s) == response'.op = op /\ response'.sid = s

\* the names in the four slots of a match
MatchNames(match) == {match[t][i].name : t \in 1..2, i \in 1..2}

SeqToSet(seq) == {seq[i] : i \in 1..Len(seq)}

\* a direct call whose list has unique names and leaves 4C players available
C1_Case ==
    /\ response.op = "generate_enhanced_tournament"
    /\ UniqueNames(response.body.players_list)
    /\ Cardinality(Names(response.body.players_list)
                   \ response.body.skip_players) >= response.body.courts * 4

\* the round the call returned: C matches of 4 distinct players each, no
\* player in two matches, P - 4C sit-outs, none of them playing
C1_Round ==
    LET r == response.body.result
        C == response.body.courts
        P == Len(response.body.players_list)
    IN  /\ r.ok
        /\ Len(r.matches) = C
        /\ \A m \in 1..Len(r.matches) : Cardinality(MatchNames(r.matches[m])) = 4
        /\ \A m, n \in 1..Len(r.matches) :
             m # n => MatchNames(r.matches[m]) \cap MatchNames(r.matches[n]) = {}
        /\ Len(r.sit_outs) = P - 4 * C
        /\ Cardinality(SeqToSet(r.sit_outs)) = P - 4 * C
        /\ SeqToSet(r.sit_outs) \cap PlayingNames(r.matches) = {}

\* C1 as stated: for every list with unique names, every court count C and
\* every skip list that leaves 4C players, the call returns C matches of 4
\* distinct players, no player twice, P - 4C sit-outs, none of them playing.
C1_AsStated == C1_Case => C1_Round

\* C1, amended: the same for every court count C >= 1; with C = 0 the call
\* returns the error "Could not generate valid matches for this round".
C1_Amended ==
    C1_Case =>
        IF response.body.courts >= 1 THEN C1_Round
        ELSE /\ ~response.body.result.ok
             /\ response.body.result.error = CouldNot

\* a call for two courts on nine players of whom one is skipped
C1_Witness ==
    /\ C1_Case
    /\ response.body.courts = 2
    /\ Len(response.body.players_list) = 9
    /\ response.body.skip_players # {}
    /\ response.body.result.ok

\* the player at a slot
At(matches, sl) == matches[sl[1]][sl[2]][sl[3]]

\* in round r of a stored tournament every player holds at most one slot and
\* nobody who plays is listed as sitting out
RoundDisjoint(t, r) ==
    LET rd == t.schedule[r]
    IN  /\ \A a, b \in Slots(rd.matches) :
             a # b => At(rd.matches, a) # At(rd.matches, b)
        /\ PlayingNames(rd.matches) \cap SeqToSet(rd.sit_outs) = {}

\* C2: in every round of every schedule (of a tournament whose players have
\* unique names) each player occupies at most one team slot, so a team is
\* two distinct players, and no player is both in a match and in the round's
\* sit-outs.
C2_AsStated ==
    \A s \in Sessions :
        UniqueNames(tournament[s].players) =>
            \A r \in 1..Len(tournament[s].schedule) :
                RoundDisjoint(tournament[s], r)

\* the position in the schedule that roundIndex ri selects
ListIndex(t, ri) == IF ri < 0 THEN Len(t.schedule) + ri + 1 ELSE ri + 1

\* every switch of the list is accepted by validate_player_switch against
\* the matches given
AllAccepted(t, matches, switches) ==
    \A i \in 1..Len(switches) :
        /\ switches[i].newPlayer \in Names(t.players)
        /\ validate_player_switch(partnership_history, matches,
               switches[i].oldPlayer,
               PlayerMap(t.players, switches[i].newPlayer)).valid

\* C3: when every switch of a list was accepted by validate_player_switch
\* against a round, then after apply_player_switches applied the list to that
\* round no team a switch changed is a pair with a partnership count above 0.
C3_AsStated ==
    [][\A s \in Sessions, sw \in SwitchLists, ri \in RoundIndexes :
          (/\ Answered("apply_player_switches", s)
           /\ response'.status = 200
           /\ UniqueNames(tournament[s].players)
           /\ apply_player_switches(s, sw, ri)
           /\ AllAccepted(tournament[s],
                  tournament[s].schedule[ListIndex(tournament[s], ri)].matches, sw))
          => LET r == ListIndex(tournament[s], ri)
                 before == tournament[s].schedule[r].matches
                 after == tournament'[s].schedule[r].matches
             IN  \A m \in 1..Len(after), tm \in 1..2 :
                    after[m][tm] # before[m][tm] =>
                        Count(partnership_history,
                              get_partnership_key(after[m][tm][1],
                                                  after[m][tm][2])) = 0]_vars

\* the teams of a round that hold a name, and the first of them: matches in
\* order, team A before team B
TeamsWith(matches, name) ==
    {tm \in (1..Len(matches)) \X (1..2) :
        \E i \in 1..2 : matches[tm[1]][tm[2]][i].name = name}

FirstTeamWith(matches, name) ==
    CHOOSE tm \in TeamsWith(matches, name) :
        \A o \in TeamsWith(matches, name) :
            tm[1] < o[1] \/ (tm[1] = o[1] /\ tm[2] <= o[2])

OtherMember(team, name) == IF team[1].name = name THEN team[2] ELSE team[1]

\* the validate request of session s reaches validate_player_switch
ValidateReached(s, new) ==
    /\ tournament[s].stored
    /\ new \in Names(tournament[s].players)
    /\ current_round[s] < Len(tournament[s].schedule)

\* C4: validate_player_switch finds the first team (matches in order, team A
\* before team B) that holds the named player; it answers invalid exactly
\* when the replacement's partnership count with that team's other member is
\* above 0, valid when it is 0, and invalid with "Player not found in current
\* matches" when no match of the round holds the name.
C4_Validate ==
    [][\A s \in Sessions, old \in ValidateOld, new \in ValidateNew :
          (/\ Answered("validate_player_switch", s)
           /\ ValidateReached(s, new)
           /\ ValidateRoute(s, old, new))
          => LET t == tournament[s]
                 matches == t.schedule[current_round[s] + 1].matches
                 b == response'.body
             IN  IF TeamsWith(matches, old) = {}
                 THEN ~b.valid /\ b.message = NotInMatches
                 ELSE LET tm == FirstTeamWith(matches, old)
                          partner == OtherMember(matches[tm[1]][tm[2]], old)
                          c == Count(partnership_history,
                                     get_partnership_key(
                                         PlayerMap(t.players, new), partner))
                      IN  /\ b.valid <=> c = 0
                          /\ c = 0 => b.message = ValidSwitch
                          /\ c > 0 => /\ b.message = AlreadyPartnered
                                      /\ b.who = new
                                      /\ b.partner = partner.name]_vars

\* a switch was refused because of an earlier partnership
C4_Witness ==
    /\ response.op = "validate_player_switch"
    /\ response.status = 200
    /\ ~response.body.valid
    /\ response.body.message = AlreadyPartnered

\* what validate_player_switch answers session s, for every request, under
\* history h
ValidateAnswers(s, h) ==
    LET t == tournament[s]
    IN  IF t.stored /\ current_round[s] < Len(t.schedule)
        THEN [old \in ValidateOld, i \in 1..Len(t.players) |->
                 validate_player_switch(h, t.schedule[current_round[s] + 1].matches,
                                        old, t.players[i])]
        ELSE <<>>

\* C5: a request of one session changes nothing another session sees of the
\* partnership history: what validate_player_switch answers the other
\* session is the same after the request as before it.
C5_AsStated ==
    [][\A s \in Sessions :
          response'.sid \in Sessions \ {s}
          => ValidateAnswers(s, partnership_history')
                 = ValidateAnswers(s, partnership_history)]_vars

\* the players of a list not named in a skip list
Available(players, skip) == SelectSeq(players, LAMBDA p : p.name \notin skip)

\* the request made generate_enhanced_tournament run on players, courts and
\* skip, and the response tells what it returned: error exactly when fewer
\* than 4 * courts players are available, both counts reported
C6_ErrorExactly(players, courts, skip) ==
    LET have == Len(Available(players, skip))
        need == courts * 4
    IN  /\ response'.status = 400 <=> have < need
        /\ response'.status = 400 =>
             /\ response'.body.error = NotEnough
             /\ response'.body.need = need
             /\ response'.body.have = have

\* the same, with the case of no court: then the error is CouldNot
C6_ErrorCases(players, courts, skip) ==
    IF courts >= 1 THEN C6_ErrorExactly(players, courts, skip)
    ELSE /\ response'.status = 400
         /\ response'.body.error = CouldNot

\* advance_round of session s generates a round
Advancing(s) == current_round[s] < Len(tournament[s].schedule) - 1

\* generate_tournament generates at least one round for a list of unique names
Generating(pd, tp, r) ==
    /\ Len(Take(pd, tp)) >= tp
    /\ r >= 1
    /\ UniqueNames(Take(pd, tp))

\* C6 is written over the two requests that call generate_enhanced_tournament:
\* a step answered to session s either is answered as the claim says for the
\* skip list (the players, the courts) in question, or is not a step of the
\* request with that skip list (those players, those courts).

\* C6 as stated: generate_enhanced_tournament returns an error exactly when
\* the players not named in the skip list are fewer than courts * 4, the
\* error reports the required and the available count, no partnership count
\* changes, and advance_round then leaves the schedule and the current round
\* index unchanged.
C6_AsStated ==
    [][/\ \A s \in Sessions, sk \in SkipSets :
            (/\ Answered("advance_round", s)
             /\ Advancing(s)
             /\ UniqueNames(tournament[s].players))
            => \/ /\ C6_ErrorExactly(tournament[s].players,
                                     ConfigCourts(config[s]), sk)
                  /\ response'.status = 400 =>
                       UNCHANGED <<partnership_history, tournament,
                                   current_round>>
               \/ \A sw \in SwitchLists : ~advance_round(s, sk, sw)
       /\ \A s \in Sessions, pd \in PlayersData, tp \in TotalPlayers,
             c \in Courts, r \in Rounds :
            (/\ Answered("generate_tournament", s)
             /\ Generating(pd, tp, r))
            => \/ /\ C6_ErrorExactly(Take(pd, tp), c, {})
                  /\ response'.status = 400 =>
                       partnership_history' = EmptyHistory
               \/ ~generate_tournament(s, pd, tp, c, r)]_vars

\* C6, amended: with at least one court (and unique names) the error is
\* returned exactly when the available players are fewer than courts * 4 and
\* reports both counts; with no court the call returns the error "Could not
\* generate valid matches for this round" however many players there are; in
\* both cases no partnership count changes, and advance_round leaves the
\* schedule and the current round index unchanged.
C6_Amended ==
    [][/\ \A s \in Sessions, sk \in SkipSets :
            (/\ Answered("advance_round", s)
             /\ Advancing(s)
             /\ UniqueNames(tournament[s].players))
            => \/ /\ C6_ErrorCases(tournament[s].players,
                                     ConfigCourts(config[s]), sk)
                  /\ response'.status = 400 =>
                       UNCHANGED <<partnership_history, tournament,
                                   current_round>>
               \/ \A sw \in SwitchLists : ~advance_round(s, sk, sw)
       /\ \A s \in Sessions, pd \in PlayersData, tp \in TotalPlayers,
             c \in Courts, r \in Rounds :
            (/\ Answered("generate_tournament", s)
             /\ Generating(pd, tp, r))
            => \/ /\ C6_ErrorCases(Take(pd, tp), c, {})
                  /\ response'.status = 400 =>
                       partnership_history' = EmptyHistory
               \/ ~generate_tournament(s, pd, tp, c, r)]_vars

\* advance_round was refused: one court, three players left by the skip list
C6_Witness ==
    /\ response.op = "advance_round"
    /\ response.status = 400
    /\ response.body.error = NotEnough
    /\ response.body.need = 4
    /\ response.body.have = 3
    /\ tournament[response.sid].stored
    /\ current_round[response.sid] = 0

\* C7: when generate_tournament fails, the stored schedule, the scores, the
\* current round index and the partnership history are all as they were
\* before the call (here: a tournament of unique names, a request for at
\* least one court).
C7_AsStated ==
    [][\A s \in Sessions, pd \in PlayersData, tp \in TotalPlayers,
          c \in Courts, r \in Rounds :
          (/\ Answered("generate_tournament", s)
           /\ response'.status # 200
           /\ UniqueNames(tournament[s].players)
           /\ c >= 1
           /\ generate_tournament(s, pd, tp, c, r))
          => UNCHANGED <<tournament, scores, current_round,
                         partnership_history>>]_vars

\* the sit-outs of a round are the tournament's players who are in none of
\* its matches
SitOutsRecomputed(t, r) ==
    SeqToSet(t.schedule[r].sit_outs)
        = Names(t.players) \ PlayingNames(t.schedule[r].matches)

\* C8: after apply_player_switches, and after advance_round called with
\* playerSwitches, the sit_outs of the round the switches went to is the set
\* of all tournament player names less the names now in the round's matches.
C8_AsStated ==
    [][/\ \A s \in Sessions, sw \in SwitchLists, ri \in RoundIndexes :
            (/\ Answered("apply_player_switches", s)
             /\ response'.status = 200
             /\ UniqueNames(tournament[s].players)
             /\ apply_player_switches(s, sw, ri))
            => SitOutsRecomputed(tournament'[s], ListIndex(tournament[s], ri))
       /\ \A s \in Sessions, sk \in SkipSets, sw \in SwitchLists :
            (/\ Answered("advance_round", s)
             /\ Advancing(s)
             /\ response'.status = 200
             /\ sw # <<>>
             /\ UniqueNames(tournament[s].players)
             /\ advance_round(s, sk, sw))
            => SitOutsRecomputed(tournament'[s], current_round'[s] + 1)]_vars

\* a switch that can replace a slot of the matches: its new player is in the
\* pool and its old player is in a match
Effective(matches, players, switch) ==
    /\ switch.newPlayer \in Names(players)
    /\ switch.oldPlayer \in PlayingNames(matches)

\* what one switch does to the matches: nothing when it cannot replace a
\* slot; otherwise one slot that held the old name holds the pool's player of
\* the new name, and every other slot is as it was
SwitchStep(before, after, players, switch) ==
    IF ~Effective(before, players, switch) THEN after = before
    ELSE \E sl \in Slots(before) :
            /\ At(before, sl).name = switch.oldPlayer
            /\ At(after, sl).name = switch.newPlayer
            /\ \E i \in 1..Len(players) : players[i] = At(after, sl)
            /\ \A o \in Slots(before) \ {sl} : At(after, o) = At(before, o)

\* the matches after the first k switches of a list
AfterSwitches(matches, players, switches, k) ==
    ApplySwitchLoop(matches, players, SubSeq(switches, 1, k), 0).matches

\* C9: apply_player_switches processes the switches in order; a switch whose
\* old player is in no match of the round when it is processed, or whose new
\* player is not in the pool, changes nothing and is not counted; the applied
\* count reported is the number of switches that replaced a slot; when that
\* count is 0 the request is refused and the schedule and the sit-outs are
\* unchanged.
C9_Switches ==
    [][\A s \in Sessions, sw \in SwitchLists, ri \in RoundIndexes :
          (/\ Answered("apply_player_switches", s)
           /\ tournament[s].stored
           /\ ri >= 0
           /\ ri < Len(tournament[s].schedule)
           /\ apply_player_switches(s, sw, ri))
          => LET t == tournament[s]
                 before == t.schedule[ri + 1].matches
                 M(k) == AfterSwitches(before, t.players, sw, k)
                 replaced == {k \in 1..Len(sw) :
                                 Effective(M(k - 1), t.players, sw[k])}
             IN  /\ \A k \in 1..Len(sw) :
                      SwitchStep(M(k - 1), M(k), t.players, sw[k])
                 /\ IF replaced = {}
                    THEN /\ response'.status = 400
                         /\ response'.body.error = "No switches were applied"
                         /\ tournament' = tournament
                    ELSE /\ response'.status = 200
                         /\ response'.body.applied_switches = Cardinality(replaced)
                         /\ response'.body.total_switches = Len(sw)
                         /\ tournament'[s].schedule[ri + 1].matches = M(Len(sw))
                         /\ \A r \in 1..Len(t.schedule) :
                              r # ri + 1 =>
                                  tournament'[s].schedule[r] = t.schedule[r]]_vars

\* of two switches one was applied and the other skipped
C9_Witness ==
    /\ response.op = "apply_player_switches"
    /\ response.status = 200
    /\ response.body.applied_switches = 1
    /\ response.body.total_switches = 2

\* C10: apply_player_switches called with a round index outside
\* [0, len(schedule)), negative indexes included, is refused with an error
\* (the claim: the error "Invalid round index") and leaves every round of
\* the schedule unchanged.
C10_AsStated ==
    [][\A s \in Sessions, sw \in SwitchLists, ri \in RoundIndexes :
          (/\ Answered("apply_player_switches", s)
           /\ tournament[s].stored
           /\ UniqueNames(tournament[s].players)
           /\ (ri < 0 \/ ri >= Len(tournament[s].schedule))
           /\ apply_player_switches(s, sw, ri))
          => /\ response'.status # 200
             /\ tournament'[s].schedule = tournament[s].schedule]_vars

\* C11: after record_partnership(p, q), have_partnered_before(p, q) and
\* have_partnered_before(q, p) are both true, and the key of (p, q) is the
\* key of (q, p).
C11_Symmetric ==
    response.op = "record_partnership" =>
        LET p == response.body.player1
            q == response.body.player2
        IN  /\ have_partnered_before(partnership_history, p, q)
            /\ have_partnered_before(partnership_history, q, p)
            /\ get_partnership_key(p, q) = get_partnership_key(q, p)

\* a partnership was recorded with the later name given first
C11_Witness ==
    /\ response.op = "record_partnership"
    /\ StrLess(response.body.player2.name, response.body.player1.name)
    /\ Count(partnership_history,
             get_partnership_key(response.body.player2,
                                 response.body.player1)) = 1

\* C12: round generation never forms a team of two players who have already
\* partnered, so after generate_simple_tournament every recorded partnership
\* count is at most 1 whenever the pool admits such a schedule (here: unique
\* names, one court, at most three rounds: four players can be paired in
\* three different ways).
C12_AsStated ==
    \A s \in Sessions :
        (/\ response.op = "generate_tournament"
         /\ response.sid = s
         /\ response.status = 200
         /\ UniqueNames(tournament[s].players)
         /\ config[s].courts = 1
         /\ config[s].rounds <= 3)
        => \A key \in BagToSet(partnership_history) :
               Count(partnership_history, key) <= 1

\* the two players of a team have one gender
OneGender(team) == team[1].gender = team[2].gender

\* a match that sets an all-M team against an all-F team
SameGenderOpposition(match) ==
    /\ OneGender(match[1])
    /\ OneGender(match[2])
    /\ match[1][1].gender # match[2][1].gender

\* C13: with avoidSameGenderOpposition (avoidMMvsFF) enabled, no generated
\* match opposes an all-M team to an all-F team.
C13_AsStated ==
    \A s \in Sessions :
        (/\ response.op = "generate_tournament"
         /\ response.sid = s
         /\ response.status = 200
         /\ config[s].avoidMMvsFF)
        => \A r \in 1..Len(tournament[s].schedule) :
             \A m \in 1..Len(tournament[s].schedule[r].matches) :
                ~SameGenderOpposition(tournament[s].schedule[r].matches[m])

\* summed ratings (in tenths) and their absolute difference
TeamRating(team) == team[1].rating + team[2].rating

RatingDiff(match) ==
    IF TeamRating(match[1]) >= TeamRating(match[2])
    THEN TeamRating(match[1]) - TeamRating(match[2])
    ELSE TeamRating(match[2]) - TeamRating(match[1])

\* the four single-player swaps between the two teams of a match
SwapPlayers(match, i, j) ==
    <<[match[1] EXCEPT ![i] = match[2][j]], [match[2] EXCEPT ![j] = match[1][i]]>>

PlayerSwaps(match) == {SwapPlayers(match, i, j) : i \in 1..2, j \in 1..2}

\* the difference exceeds 1.0 and some swap strictly reduces it
Improvable(match) ==
    /\ RatingDiff(match) > 10
    /\ \E sw \in PlayerSwaps(match) : RatingDiff(sw) < RatingDiff(match)

BestSwaps(match) ==
    {sw \in PlayerSwaps(match) :
        \A o \in PlayerSwaps(match) : RatingDiff(sw) <= RatingDiff(o)}

\* the teams a match can have been formed as, before any balancing: its four
\* players in some order, paired by create_balanced_teams
FormedAs(match) ==
    {create_balanced_teams(four) :
        four \in Shuffles(<<match[1][1], match[1][2], match[2][1], match[2][2]>>)}

\* the session's last request generated a tournament with useRatingBalance on
RatingBalanced(s) ==
    /\ response.op = "generate_tournament"
    /\ response.sid = s
    /\ response.status = 200
    /\ config[s].useRatingBalance

\* C14: with useRatingBalance enabled, every generated match is, when the
\* teams as formed differ by more than 1.0 in summed rating and a single-
\* player swap strictly reduces the difference, the result of a swap that
\* minimizes it, and otherwise the teams as formed; its difference is never
\* larger than that of the teams as formed.
C14_RatingBalance ==
    \A s \in Sessions :
        RatingBalanced(s) =>
            \A r \in 1..Len(tournament[s].schedule) :
              \A m \in 1..Len(tournament[s].schedule[r].matches) :
                LET match == tournament[s].schedule[r].matches[m]
                IN  \E formed \in FormedAs(match) :
                       /\ Improvable(formed) => match \in BestSwaps(formed)
                       /\ ~Improvable(formed) => match = formed
                       /\ RatingDiff(match) <= RatingDiff(formed)

\* a match was generated whose teams differ by more than 1.0
C14_Witness ==
    \E s \in Sessions :
        /\ RatingBalanced(s)
        /\ \E r \in 1..Len(tournament[s].schedule) :
             \E m \in 1..Len(tournament[s].schedule[r].matches) :
                RatingDiff(tournament[s].schedule[r].matches[m]) > 10

\* the sum of f over the finite set S
RECURSIVE SumOver(_, _)
SumOver(f, S) ==
    IF S = {} THEN 0
    ELSE LET x == CHOOSE x \in S : TRUE
         IN  f[x] + SumOver(f, S \ {x})

\* the last request was calculate_results and it returned the list
ResultsOf(s) ==
    /\ response.op = "calculate_results"
    /\ response.sid = s
    /\ response.status = 200

\* the score stored for a team of a match (1: teamA, 2: teamB)
TeamScore(s, r, m, tm) ==
    scores[s][<<r - 1, m - 1, IF tm = 1 THEN "teamA" ELSE "teamB">>]

\* the matches of the schedule that have both scores
ScoredMatches(s) ==
    {rm \in {<<r, m>> : r \in 1..Len(tournament[s].schedule),
                        m \in 1..MaxCourts} :
        /\ rm[2] <= Len(tournament[s].schedule[rm[1]].matches)
        /\ <<rm[1] - 1, rm[2] - 1, "teamA">> \in DOMAIN scores[s]
        /\ <<rm[1] - 1, rm[2] - 1, "teamB">> \in DOMAIN scores[s]}

\* the places <<round, match, team, position>> a name holds in scored matches
ScoredPlaces(s, name) ==
    {p \in {<<rm[1], rm[2], tm, i>> : rm \in ScoredMatches(s),
                                      tm \in 1..2, i \in 1..2} :
        tournament[s].schedule[p[1]].matches[p[2]][p[3]][p[4]].name = name}

\* C15: calculate_results counts a match only when both its scores are
\* there; for each such match every player of a team has the team's score
\* added to totalScore and matchesPlayed raised by 1, and wins raised by 1
\* exactly when the team's score is strictly greater than the opponent's;
\* matches missing a score change no statistic.
C15_Statistics ==
    \A s \in Sessions :
        ResultsOf(s) =>
            \A k \in 1..Len(response.body.results) :
                LET rec == response.body.results[k]
                    places == ScoredPlaces(s, rec.name)
                IN  /\ rec.totalScore =
                         SumOver([p \in places |->
                                     TeamScore(s, p[1], p[2], p[3])], places)
                    /\ rec.matchesPlayed = Cardinality(places)
                    /\ rec.wins =
                         Cardinality({p \in places :
                             TeamScore(s, p[1], p[2], p[3])
                                 > TeamScore(s, p[1], p[2], 3 - p[3])})

\* results were computed with one match won 21 to 15 and another match that
\* has one of its two scores only
C15_Witness ==
    /\ ResultsOf("s1")
    /\ \E k \in 1..Len(response.body.results) :
          /\ response.body.results[k].wins = 1
          /\ response.body.results[k].matchesPlayed = 1
          /\ response.body.results[k].totalScore = 21
    /\ \E key \in DOMAIN scores["s1"] :
          /\ key[1] < Len(tournament["s1"].schedule)
          /\ <<key[1] + 1, key[2] + 1>> \notin ScoredMatches("s1")

\* C16: the list calculate_results returns has exactly one record for each
\* player of the pool (of unique names) and, for any two consecutive
\* records, the triple (totalScore, wins, matchesPlayed) does not increase
\* lexicographically.
C16_Ranking ==
    \A s \in Sessions :
        (ResultsOf(s) /\ UniqueNames(tournament[s].players)) =>
            LET results == response.body.results
            IN  /\ Len(results) = Len(tournament[s].players)
                /\ \A i \in 1..Len(tournament[s].players) :
                     Cardinality({k \in 1..Len(results) :
                         results[k].name = tournament[s].players[i].name}) = 1
                /\ \A k \in 1..(Len(results) - 1) :
                     ~RankedBefore(results[k + 1], results[k])

\* results in which the order of the pool had to change
C16_Witness ==
    /\ ResultsOf("s1")
    /\ UniqueNames(tournament["s1"].players)
    /\ \E k \in 1..Len(response.body.results) :
          response.body.results[k].name # tournament["s1"].players[k].name
    /\ \E k \in 1..(Len(response.body.results) - 1) :
          response.body.results[k].totalScore
              > response.body.results[k + 1].totalScore
    /\ \E k \in 1..(Len(response.body.results) - 1) :
          response.body.results[k].totalScore
              = response.body.results[k + 1].totalScore

\* the partnership keys of the teams of a round's matches, and how many of
\* the teams have a given key
TeamKeys(matches) ==
    {get_partnership_key(matches[m][tm][1], matches[m][tm][2]) :
        m \in 1..Len(matches), tm \in 1..2}

TeamsKeyed(matches, key) ==
    Cardinality({mt \in (1..Len(matches)) \X (1..2) :
        get_partnership_key(matches[mt[1]][mt[2]][1],
                            matches[mt[1]][mt[2]][2]) = key})

\* how many teams of a whole schedule have a given key
ScheduleTeamsKeyed(schedule, key) ==
    Cardinality({rmt \in (1..Len(schedule)) \X (1..MaxCourts) \X (1..2) :
        /\ rmt[2] <= Len(schedule[rmt[1]].matches)
        /\ get_partnership_key(schedule[rmt[1]].matches[rmt[2]][rmt[3]][1],
                               schedule[rmt[1]].matches[rmt[2]][rmt[3]][2]) = key})

\* the keys counted before or after a step
KeysCounted == BagToSet(partnership_history) \cup BagToSet(partnership_history')

\* C17: a successful round generation adds exactly 1 to the partnership
\* count of each of the 2C teams it formed and changes no other count (seen
\* in advance_round called without switches, where the round stored is the
\* round generated; with switches the counts added are 2C in all); and no
\* advance_round, validate_player_switch, apply_player_switches or
\* update_score lowers a count.
C17_Counts ==
    [][\A s \in Sessions :
         /\ \A sk \in SkipSets :
              (/\ Answered("advance_round", s)
               /\ Advancing(s)
               /\ response'.status = 200
               /\ advance_round(s, sk, <<>>))
              => LET generated ==
                         tournament'[s].schedule[current_round'[s] + 1].matches
                 IN  /\ Len(generated) = ConfigCourts(config[s])
                     /\ \A key \in KeysCounted \cup TeamKeys(generated) :
                          Count(partnership_history', key)
                              = Count(partnership_history, key)
                                  + TeamsKeyed(generated, key)
         /\ (Answered("generate_tournament", s) /\ response'.status = 200)
            => \A key \in KeysCounted \cup UNION {TeamKeys(tournament'[s].schedule[r].matches) : r \in 1..Len(tournament'[s].schedule)} :
                   Count(partnership_history', key)
                       = ScheduleTeamsKeyed(tournament'[s].schedule, key)
         /\ (Answered("advance_round", s) /\ Advancing(s)
             /\ response'.status = 200)
            => BagCardinality(partnership_history')
                   = BagCardinality(partnership_history)
                       + 2 * ConfigCourts(config[s])
         /\ response'.op \in {"advance_round", "validate_player_switch",
                              "apply_player_switches", "update_score"}
            => \A key \in KeysCounted :
                   Count(partnership_history', key)
                       >= Count(partnership_history, key)]_vars

\* advance_round generated a round and a pair has now partnered twice
C17_Witness ==
    /\ response.op = "advance_round"
    /\ response.status = 200
    /\ current_round[response.sid] = 1
    /\ \E key \in BagToSet(partnership_history) :
          Count(partnership_history, key) = 2
    /\ \E key \in BagToSet(partnership_history) :
          Count(partnership_history, key) = 1

\* the partnership keys of the teammates of the session's current schedule
ScheduleKeys(s) ==
    UNION {TeamKeys(tournament[s].schedule[r].matches) :
              r \in 1..Len(tournament[s].schedule)}

\* have_partnered_before is true of exactly the teammates of the schedule
HistoryIsSchedule(s) ==
    \A i, j \in 1..Len(tournament[s].players) :
        have_partnered_before(partnership_history,
                              tournament[s].players[i], tournament[s].players[j])
            <=> get_partnership_key(tournament[s].players[i],
                                    tournament[s].players[j]) \in ScheduleKeys(s)

\* C18: after generate_tournament and advance_round operations without
\* player switches, have_partnered_before(p, q) is true if and only if p and
\* q are teammates in some round of the session's current schedule. Stated
\* for the first advance_round after a successful generate_tournament of a
\* pool of unique names: it holds before the step and is to hold after it.
C18_AsStated ==
    [][\A s \in Sessions :
         (/\ response.op = "generate_tournament"
          /\ response.sid = s
          /\ response.status = 200
          /\ UniqueNames(tournament[s].players)
          /\ HistoryIsSchedule(s)
          /\ Answered("advance_round", s)
          /\ \E sk \in SkipSets : advance_round(s, sk, <<>>))
         => HistoryIsSchedule(s)']_vars

\* C19: apply_player_switches and the switch step of advance_round leave
\* the partnership history unchanged. No apply_player_switches request
\* changes any count; an advance_round with switches adds the counts of the
\* round as generate_enhanced_tournament returned it, before the switches,
\* and nothing for the teams the switches formed.
C19_HistoryKept ==
    [][\A s \in Sessions :
         /\ Answered("apply_player_switches", s)
            => partnership_history' = partnership_history
         /\ \A sk \in SkipSets, sw \in SwitchLists :
              (/\ Answered("advance_round", s)
               /\ Advancing(s)
               /\ response'.status = 200
               /\ advance_round(s, sk, sw))
              => \E o \in generate_enhanced_tournament(partnership_history,
                              ConfigCourts(config[s]), tournament[s].players, sk) :
                   /\ o.result.ok
                   /\ tournament'[s].schedule[current_round'[s] + 1].matches
                          = AdvanceSwitchLoop(o.result.matches,
                                              tournament[s].players, sw)
                   /\ \A key \in KeysCounted \cup TeamKeys(o.result.matches) :
                          Count(partnership_history', key)
                              = Count(partnership_history, key)
                                  + TeamsKeyed(o.result.matches, key)]_vars

\* switches were applied and formed a team whose pair has no count
C19_Witness ==
    /\ response.op \in {"apply_player_switches", "advance_round"}
    /\ response.status = 200
    /\ UniqueNames(tournament[response.sid].players)
    /\ partnership_history # EmptyHistory
    /\ \E key \in ScheduleKeys(response.sid) :
          Count(partnership_history, key) = 0

\* the ratings of four players are distinct
DistinctRatings(four) ==
    \A i, j \in 1..4 : i # j => four[i].rating # four[j].rating

\* the player of the four with exactly n players rated below
RatedNth(four, n) ==
    CHOOSE p \in SeqToSet(four) :
        Cardinality({i \in 1..4 : four[i].rating < p.rating}) = n

\* C20: for four players with distinct ratings r1 < r2 < r3 < r4,
\* create_balanced_teams returns Team A = the players rated r1 and r4 and
\* Team B = the players rated r2 and r3; for any four players the two teams
\* of two together hold each of the four exactly once.
C20_Teams ==
    response.op = "create_balanced_teams" =>
        LET four == response.body.four_players
            teams == response.body.teams
            all == teams[1] \o teams[2]
        IN  /\ Len(teams) = 2
            /\ Len(teams[1]) = 2
            /\ Len(teams[2]) = 2
            /\ \E perm \in Permutations(1..4) :
                   \A i \in 1..4 : all[i] = four[perm[i]]
            /\ DistinctRatings(four) =>
                   /\ SeqToSet(teams[1]) = {RatedNth(four, 0), RatedNth(four, 3)}
                   /\ SeqToSet(teams[2]) = {RatedNth(four, 1), RatedNth(four, 2)}

\* four players with distinct ratings, given with the highest first and the
\* lowest third, were paired
C20_Witness ==
    /\ response.op = "create_balanced_teams"
    /\ DistinctRatings(response.body.four_players)
    /\ response.body.four_players[1] = RatedNth(response.body.four_players, 3)
    /\ response.body.four_players[3] = RatedNth(response.body.four_players, 0)
    /\ response.body.teams[1][1] = response.body.four_players[3]

\* the three ways of splitting four players into two teams of two
Splits(four) ==
    { <<<<four[1], four[2]>>, <<four[3], four[4]>>>>,
      <<<<four[1], four[3]>>, <<four[2], four[4]>>>>,
      <<<<four[1], four[4]>>, <<four[2], four[3]>>>> }

\* C21: for any four players, the teams returned by create_balanced_teams
\* have an absolute difference of summed ratings no larger than that of any
\* way of splitting the four into two teams of two, and no single-player
\* swap between the two teams strictly reduces the difference.
C21_LeastDifference ==
    response.op = "create_balanced_teams" =>
        LET four == response.body.four_players
            teams == response.body.teams
        IN  /\ \A split \in Splits(four) :
                   RatingDiff(teams) <= RatingDiff(split)
            /\ \A sw \in PlayerSwaps(teams) :
                   RatingDiff(sw) >= RatingDiff(teams)

\* four players given out of rating order were paired with a difference
\* above 0 that is strictly below that of both other splits
C21_Witness ==
    /\ response.op = "create_balanced_teams"
    /\ response.body.four_players[1].rating > response.body.four_players[2].rating
    /\ RatingDiff(response.body.teams) > 0
    /\ Cardinality({split \in Splits(response.body.four_players) :
           RatingDiff(split) > RatingDiff(response.body.teams)}) = 2

\* the players in the slots of a round's matches
PlayersIn(matches) == {At(matches, sl) : sl \in Slots(matches)}

\* the first courts*4 players of the pool, in pool order, not in the skip list
FirstAvailable(players, skip, courts) == Take(Available(players, skip), courts * 4)

\* the names at pool positions courts*4 and beyond
NamesBeyond(players, courts) ==
    NameSeq(SubSeq(players, courts * 4 + 1, Len(players)))

C23_Rounds ==
    \A s \in Sessions :
        tournament[s].stored =>
            /\ config[s].stored
            /\ Len(tournament[s].schedule) = config[s].rounds
            /\ \A i \in 1..Len(tournament[s].schedule) :
                   tournament[s].schedule[i].round = i

\* a tournament of two rounds whose second round advance_round has replaced
C23_Witness ==
    /\ response.op = "advance_round"
    /\ response.status = 200
    /\ current_round[response.sid] = 1
    /\ config[response.sid].rounds = 2
    /\ tournament[response.sid].schedule[2].round = 2

\* what a step answered to session s does to the current round index:
\* generate_tournament sets it to 0; an advance_round below the last round
\* either stores a round at the next index, and nothing else, and moves the
\* index there, or fails and changes nothing of the session; an
\* advance_round at the last round answers 'completed' and changes neither
\* the schedule, the partnership history nor the index; no other request
\* changes the index
RoundIndexStep(s) ==
    /\ (Answered("generate_tournament", s) /\ response'.status = 200)
       => current_round'[s] = 0
    /\ Answered("advance_round", s) =>
         IF Advancing(s)
         THEN IF response'.status = 200
              THEN /\ current_round'[s] = current_round[s] + 1
                   /\ response'.body = [round |-> current_round'[s]]
                   /\ tournament'[s].players = tournament[s].players
                   /\ Len(tournament'[s].schedule) = Len(tournament[s].schedule)
                   /\ \A i \in 1..Len(tournament[s].schedule) :
                        i # current_round'[s] + 1 =>
                            tournament'[s].schedule[i] = tournament[s].schedule[i]
              ELSE /\ current_round'[s] = current_round[s]
                   /\ tournament'[s] = tournament[s]
         ELSE /\ response'.status = 200
              /\ response'.body = [completed |-> TRUE]
              /\ UNCHANGED <<tournament, partnership_history, current_round>>
    /\ (Answered("validate_player_switch", s)
           \/ Answered("apply_player_switches", s)
           \/ Answered("update_score", s))
       => current_round'[s] = current_round[s]

\* C24: the current round index starts at 0 after generate_tournament, each
\* successful advance_round increases it by exactly 1 and replaces only the
\* round at the new index, a failed advance_round leaves it unchanged, and
\* it never exceeds len(schedule) - 1: once it equals len(schedule) - 1
\* every further advance_round returns 'completed' and changes neither the
\* schedule, the partnership history nor the index.
C24_AsStated ==
    [][\A s \in Sessions :
         /\ RoundIndexStep(s)
         /\ tournament'[s].stored
            => current_round'[s] <= Len(tournament'[s].schedule) - 1]_vars

\* C24, amended: the same for tournaments of R >= 1 rounds, where the index
\* stays within 0..R - 1; a tournament generated with 0 rounds has an empty
\* schedule and index 0, above len(schedule) - 1, and every advance_round
\* returns 'completed'.
C24_Amended ==
    [][\A s \in Sessions :
         /\ RoundIndexStep(s)
         /\ tournament'[s].stored
            => IF config'[s].rounds >= 1
               THEN /\ current_round'[s] >= 0
                    /\ current_round'[s] <= Len(tournament'[s].schedule) - 1
                    /\ current_round'[s] <= config'[s].rounds - 1
               ELSE /\ current_round'[s] = 0
                    /\ tournament'[s].schedule = <<>>]_vars

\* advance_round stored the last round of a tournament of two rounds
C24_Witness ==
    /\ response.op = "advance_round"
    /\ response.status = 200
    /\ response.body = [round |-> 1]
    /\ current_round[response.sid] = 1
    /\ Len(tournament[response.sid].schedule) = 2

\* C25: get_partnership_key identifies the unordered pair, for arbitrary
\* name strings, names containing '|' included: two pairs have the same key
\* only if they are the same pair of names, so after one pair (p, q) has
\* been recorded have_partnered_before(r, s) is true of no other pair.
C25_AsStated ==
    (response.op = "record_partnership" /\ BagCardinality(partnership_history) = 1) =>
        LET p == response.body.player1
            q == response.body.player2
        IN  \A r \in TrackerPlayers, s \in TrackerPlayers :
                /\ get_partnership_key(p, q) = get_partnership_key(r, s)
                       => {r.name, s.name} = {p.name, q.name}
                /\ have_partnered_before(partnership_history, r, s)
                       => {r.name, s.name} = {p.name, q.name}

====
